---- MODULE Spec2Model ----
(***************************************************************************)
(* Model of the notebook 2019-09-18-TF_kinetics.ipynb:                     *)
(*   matrix_with_void  (the void-state augmentation of a weight matrix)    *)
(*   GMFPT_theory      (the spectral global mean first passage time)       *)
(*   and the in-place writes the notebook applies to returned matrices.    *)
(*                                                                         *)
(* Real numbers are exact rationals <<n, d>> in lowest terms with d > 0.   *)
(* numpy's float division by zero does not raise; it yields the IEEE       *)
(* values inf, -inf and nan, kept here as <<1,0>>, <<-1,0>> and <<0,0>>.   *)
(* Rounding error is not modelled.                                         *)
(***************************************************************************)
EXTENDS Integers, Sequences, FiniteSets, TLC

(* ------------------------------ bounds --------------------------------- *)
\* largest entry of a caller-supplied base matrix
MaxW == 1
\* p_void ranges over k/PDen for k in -1 .. PDen+1 (so 0, 1 and both outsides)
PDen == 4
\* number of matrix_with_void calls in one session
MaxCalls == 2
\* in-place writes to returned matrices in one session: each rescaling and
\* each increment of add_noise counts as one
MaxWrites == 1
\* largest n_reads of "tad *= n_reads"
MaxReads == 2
\* largest factor c by which a solver graph is rescaled
MaxScale == 2
\* the eigensolver's unit vectors are drawn from the grids k/D, D in 1..MaxDen
MaxDen == 6

(* --------------------------- real arithmetic --------------------------- *)
Abs(x) == IF x < 0 THEN -x ELSE x

Sgn(x) == IF x < 0 THEN -1 ELSE IF x > 0 THEN 1 ELSE 0

RECURSIVE GCD(_, _)
GCD(a, b) == IF b = 0 THEN a ELSE GCD(b, a % b)

NaN == <<0, 0>>

PInf == <<1, 0>>

NInf == <<-1, 0>>

Norm(n, d) ==
  IF d = 0 THEN <<Sgn(n), 0>>
  ELSE LET g == GCD(Abs(n), Abs(d))
       IN  <<(Sgn(d) * n) \div g, Abs(d) \div g>>

Int2R(k) == <<k, 1>>

IsFinite(a) == a[2] # 0

IsInf(a) == a[2] = 0 /\ a[1] # 0

\* float addition: inf + inf = inf, inf - inf = nan, nan absorbs
Add(a, b) ==
  IF IsInf(a) /\ IsInf(b) THEN (IF a = b THEN a ELSE NaN)
  ELSE Norm(a[1] * b[2] + b[1] * a[2], a[2] * b[2])

Neg(a) == <<-a[1], a[2]>>

Sub(a, b) == Add(a, Neg(b))

\* float multiplication: inf * 0 = nan
Mul(a, b) == Norm(a[1] * b[1], a[2] * b[2])

\* float division as numpy performs it: x/0 = +-inf, 0/0 = nan, x/inf = 0
Div(a, b) ==
  IF a[2] * b[1] = 0
  THEN <<Sgn(a[1] * b[2]) * (IF b[1] < 0 THEN -1 ELSE 1), 0>>
  ELSE Norm(a[1] * b[2], a[2] * b[1])

Less(a, b) == a[1] * b[2] < b[1] * a[2]

RECURSIVE SumSeq(_)
\* np.sum / np.dot accumulation over a vector
SumSeq(s) == IF s = <<>> THEN Int2R(0) ELSE Add(s[1], SumSeq(Tail(s)))

(* ------------------------------ matrices ------------------------------- *)
\* a matrix is a sequence of rows; shape[0] = Rows, shape[1] = Cols
Rows(m) == Len(m)

Cols(m) == Len(m[1])

IsSquare(m) == Rows(m) = Cols(m)

IsSymmetric(m) ==
  IsSquare(m) /\ \A i, j \in 1..Rows(m) : m[i][j] = m[j][i]

\* np.sum(m, axis=1)
RowSums(m) == [i \in 1..Rows(m) |-> SumSeq(m[i])]

\* np.zeros((r, c))
Zeros(r, c) == [i \in 1..r |-> [j \in 1..c |-> Int2R(0)]]

(* --------------------------- matrix_with_void -------------------------- *)
d_j_axis0(m0) ==
  IF IsSquare(m0)
  THEN [i \in 1..Rows(m0) |-> SumSeq([r \in 1..Rows(m0) |-> m0[r][i]])]
  ELSE RowSums(m0)

\* d_j = np.sum(mat0, axis=1)
d_j(m0) == RowSums(m0)

lambda_j_nodiv(m0, p) ==
  [i \in 1..Rows(m0) |-> Mul(Mul(p, d_j(m0)[i]), Sub(Int2R(1), p))]

lambda_j_swapped(m0, p) ==
  [i \in 1..Rows(m0) |-> Div(Mul(Sub(Int2R(1), p), d_j(m0)[i]), p)]

\* lambda_j = p_void * d_j / (1 - p_void)
lambda_j(m0, p) ==
  [i \in 1..Rows(m0) |-> Div(Mul(p, d_j(m0)[i]), Sub(Int2R(1), p))]

\* "mat[:N,:N] = mat0" succeeds when mat0 is (N,N) or broadcasts from (N,1)
\* (a 1x1 source broadcasts as well); any other shape raises ValueError
Broadcasts(m0) == Cols(m0) = Rows(m0) \/ Cols(m0) = 1

\* the value numpy stores at [i,j] of the block for source m0
BlockEntry(m0, i, j) == IF Cols(m0) = 1 THEN m0[i][1] ELSE m0[i][j]

\* the body of matrix_with_void after the shape check of the block assignment
matrix_with_void(m0, p) ==
  LET N   == Rows(m0)
      lam == lambda_j(m0, p)
  IN  [i \in 1..(N + 1) |-> [j \in 1..(N + 1) |->
         IF i <= N /\ j <= N THEN BlockEntry(m0, i, j)
         ELSE IF i = N + 1 /\ j <= N THEN lam[j]
         ELSE IF j = N + 1 /\ i <= N THEN lam[i]
         ELSE Zeros(N + 1, N + 1)[i][j]]]

(* ------------------------ in-place array writes ------------------------ *)
\* "tad *= n_reads"
ScaleInPlace(m, c) ==
  [i \in 1..Rows(m) |-> [j \in 1..Cols(m) |-> Mul(m[i][j], Int2R(c))]]

RECURSIVE add_noise(_, _)
\* add_noise: for i,j in coords: M[i,j] += 1
add_noise(M, coords) ==
  IF coords = <<>> THEN M
  ELSE LET i == coords[1][1]
           j == coords[1][2]
       IN  add_noise([M EXCEPT ![i][j] = Add(M[i][j], Int2R(1))], Tail(coords))

(* ------------------------------- state --------------------------------- *)
VARIABLES
  heap,     \* array storage: reference -> matrix
  mat0,     \* the caller's reference to the base matrix
  mat,      \* the caller's reference to the latest returned matrix, 0 if none
  base0,    \* the base matrix as the caller built it
  last,     \* record of the latest matrix_with_void call
  calls,    \* matrix_with_void calls made
  writes,   \* in-place writes made
  A,        \* argument of GMFPT_theory
  weighted, \* argument of GMFPT_theory
  run       \* record of the GMFPT_theory call, or NoRun

vars == <<heap, mat0, mat, base0, last, calls, writes, A, weighted, run>>

augVars == <<heap, mat0, mat, base0, last, calls, writes>>

solveVars == <<A, weighted, run>>

NoCall == [outcome |-> "none"]

NoRun == [outcome |-> "none"]

Refs == 1..3

aliased_ref(live) == CHOOSE r \in live : TRUE

\* np.zeros allocates storage no live array uses
fresh_ref(live) == CHOOSE r \in Refs : r \notin live

Dims == {1, 2}

\* caller-supplied base matrices: every shape over Dims, weights 0..MaxW
\* between distinct nodes, self-loops of weight 0 or 1
Bases ==
  UNION { { m \in [1..r -> [1..c -> {Int2R(w) : w \in 0..MaxW}]] :
              \A i \in 1..r : i <= c => m[i][i] \in {Int2R(0), Int2R(1)} } :
          r \in Dims, c \in Dims }

PVals == { Norm(k, PDen) : k \in (-1)..(PDen + 1) }

InitAug ==
  /\ \E b \in Bases : base0 = b /\ heap = [r \in {1} |-> b]
  /\ mat0 = 1
  /\ mat = 0
  /\ last = NoCall
  /\ calls = 0
  /\ writes = 0
  /\ A = <<>> /\ weighted = TRUE /\ run = NoRun

\* mat = matrix_with_void(mat0, p_void)
MatrixWithVoid(p_void) ==
  /\ calls < MaxCalls
  /\ calls' = calls + 1
  /\ IF Broadcasts(heap[mat0])
     THEN LET r   == fresh_ref({mat0} \cup (IF mat = 0 THEN {} ELSE {mat}))
              val == matrix_with_void(heap[mat0], p_void)
              rec == [outcome |-> "returned", p |-> p_void, after |-> writes,
                      arg |-> heap[mat0], value |-> val]
          IN  /\ heap' = [x \in {mat0, r} |-> IF x = r THEN val ELSE heap[x]]
              /\ mat' = r
              /\ last' = rec
     ELSE /\ last' = [outcome |-> "ValueError", p |-> p_void, after |-> writes,
                      arg |-> heap[mat0]]
          /\ UNCHANGED <<heap, mat>>
  /\ UNCHANGED <<mat0, base0, writes>>

\* tad *= n_reads
Rescale(n_reads) ==
  /\ mat # 0
  /\ writes < MaxWrites
  /\ writes' = writes + 1
  /\ heap' = [heap EXCEPT ![mat] = ScaleInPlace(heap[mat], n_reads)]
  /\ UNCHANGED <<mat0, mat, base0, last, calls>>

\* add_noise(tad, n_noise)
AddNoise(coords) ==
  /\ mat # 0
  /\ writes + Len(coords) <= MaxWrites
  /\ writes' = writes + Len(coords)
  /\ heap' = [heap EXCEPT ![mat] = add_noise(heap[mat], coords)]
  /\ UNCHANGED <<mat0, mat, base0, last, calls>>

CallMatrixWithVoid ==
  /\ \E p \in PVals : MatrixWithVoid(p)
  /\ UNCHANGED solveVars

CallRescale ==
  /\ \E n \in 2..MaxReads : Rescale(n)
  /\ UNCHANGED solveVars

CallAddNoise ==
  /\ mat # 0
  /\ \E n_noise \in 1..(MaxWrites - writes) :
       \E coords \in [1..n_noise -> (1..Rows(heap[mat])) \X (1..Rows(heap[mat]))] :
         AddNoise(coords)
  /\ UNCHANGED solveVars

NextAug == CallMatrixWithVoid \/ CallRescale \/ CallAddNoise

SpecAug == InitAug /\ [][NextAug]_vars

(* ------------------------------ GMFPT_theory --------------------------- *)
Dot(x, y) == SumSeq([k \in 1..Len(x) |-> Mul(x[k], y[k])])

\* L = np.diag(d) - A
Laplacian(G) ==
  LET d == RowSums(G)
  IN  [i \in 1..Rows(G) |-> [j \in 1..Rows(G) |->
         Sub(IF i = j THEN d[i] ELSE Int2R(0), G[i][j])]]

MatVec(M, x) == [i \in 1..Rows(M) |-> Dot(M[i], x)]

FromInts(m) == [i \in 1..Len(m) |-> [j \in 1..Len(m[i]) |-> Int2R(m[i][j])]]

\* two disjoint edges: a disconnected graph
TwoPairs == FromInts(<< <<0, 1, 0, 0>>, <<1, 0, 0, 0>>, <<0, 0, 0, 1>>, <<0, 0, 1, 0>> >>)

\* the 4-cycle: connected, regular, with a repeated eigenvalue
Cycle4 == FromInts(<< <<0, 1, 0, 1>>, <<1, 0, 1, 0>>, <<0, 1, 0, 1>>, <<1, 0, 1, 0>> >>)

\* a connected graph with unequal degrees 13, 5, 9, 9 and spectrum 0, 6, 12, 18
Uneven == FromInts(<< <<0, 3, 4, 6>>, <<3, 0, 2, 0>>, <<4, 2, 0, 3>>, <<6, 0, 3, 0>> >>)

\* the graphs handed to GMFPT_theory
SolverBaseGraphs == {TwoPairs, Cycle4, Uneven}

SolverN == Rows(Uneven)

\* candidate unit vectors with rational entries
UnitPool ==
  UNION { { [i \in 1..SolverN |-> Norm(k[i], D)] :
              k \in { q \in [1..SolverN -> (-D)..D] :
                        q[1]*q[1] + q[2]*q[2] + q[3]*q[3] + q[4]*q[4] = D*D } } :
          D \in 1..MaxDen }

\* unit eigenvectors of M among the candidates
EigVecs(M) ==
  { x \in UnitPool :
      LET Mx == MatVec(M, x)
          ev == Dot(x, Mx)
      IN  \A i \in 1..Rows(M) : Mx[i] = Mul(ev, x[i]) }

\* scipy.linalg.eig(L) for a symmetric L: some orthonormal basis of unit
\* eigenvectors, in any order and with any signs, each with its eigenvalue;
\* out[m] = [val |-> L_eigs[0][m], vec |-> L_eigs[1][:,m]]
eig(M) ==
  { [m \in 1..Rows(M) |-> [val |-> Dot(b[m], MatVec(M, b[m])), vec |-> b[m]]] :
      b \in { c \in [1..Rows(M) -> EigVecs(M)] :
                \A i, j \in 1..Rows(M) : i < j => Dot(c[i], c[j]) = Int2R(0) } }

Perms(n) == { f \in [1..n -> 1..n] : \A i, j \in 1..n : i # j => f[i] # f[j] }

argsort_identity(vals) == { [i \in 1..Len(vals) |-> i] }

\* np.argsort(L_eigs[0]): an index order that sorts ascending; the order among
\* equal values is whatever the sort produces
argsort(vals) ==
  { f \in Perms(Len(vals)) :
      \A i \in 1..(Len(vals) - 1) : ~Less(vals[f[i + 1]], vals[f[i]]) }

\* l = np.array([L_eigs[0][i].real for i in sortidx])
sorted_l(L_eigs, sortidx) == [i \in 1..Len(sortidx) |-> L_eigs[sortidx[i]].val]

unsorted_v(L_eigs, sortidx) == [i \in 1..Len(sortidx) |-> L_eigs[i].vec]

\* v = np.array([L_eigs[1][:,i].real for i in sortidx])
sorted_v(L_eigs, sortidx) == [i \in 1..Len(sortidx) |-> L_eigs[sortidx[i]].vec]

\* 1.0/l[i] * (2*E*v[i,j]**2 - v[i,j]*dv[i])
term_unweighted(E, li, vij, dvi) ==
  Mul(Div(Int2R(1), li),
      Sub(Mul(Mul(Int2R(2), E), Mul(vij, vij)), Mul(vij, dvi)))

\* dvi = v[i,j]*dv[i]
\* 1.0/l[i]*((2*E)**2*v[i,j]**2 - 2*v[i,j]*2*E*dvi - dvi**2)
term_weighted(E, li, vij, dv_i) ==
  LET dvi  == Mul(vij, dv_i)
      twoE == Mul(Int2R(2), E)
  IN  Mul(Div(Int2R(1), li),
          Sub(Sub(Mul(Mul(twoE, twoE), Mul(vij, vij)),
                  Mul(Mul(Mul(Mul(Int2R(2), vij), Int2R(2)), E), dvi)),
              Mul(dvi, dvi)))

RECURSIVE accumulate(_, _, _, _, _, _, _)
\* for i in range(first, N): T[j] += term      (i is 0-based in the code)
accumulate(wtd, E, l, v, dv, j, i) ==
  IF i > Len(l) THEN Int2R(0)
  ELSE Add(IF wtd THEN term_weighted(E, l[i], v[i][j], dv[i])
                  ELSE term_unweighted(E, l[i], v[i][j], dv[i]),
           accumulate(wtd, E, l, v, dv, j, i + 1))

\* range(1,N): the 1-based position of the first mode the loops visit
first_mode == 2

\* return float(N)/(N-1.0) * T
return_unweighted(N, T) ==
  [j \in 1..N |-> Mul(Div(Int2R(N), Sub(Int2R(N), Int2R(1))), T[j])]

return_weighted_undivided(N, E, T) == T

\* return T/(2*E)
return_weighted(N, E, T) == [j \in 1..N |-> Div(T[j], Mul(Int2R(2), E))]

\* GMFPT_theory from "T = np.zeros(N)" on, for the sorted spectrum l, v
gmfpt_loops(G, wtd, l, v) ==
  LET N  == Rows(G)
      d  == RowSums(G)
      E  == Div(SumSeq(d), Int2R(2))
      dv == [i \in 1..N |-> Dot(v[i], d)]
      T  == [j \in 1..N |-> accumulate(wtd, E, l, v, dv, j, first_mode)]
  IN  IF wtd THEN return_weighted(N, E, T) ELSE return_unweighted(N, T)

InitSolve ==
  /\ A \in SolverBaseGraphs
  /\ weighted \in BOOLEAN
  /\ run = NoRun
  /\ heap = <<>> /\ mat0 = 0 /\ mat = 0 /\ base0 = <<>>
  /\ last = NoCall /\ calls = 0 /\ writes = 0

\* GMFPT_theory(A, weighted)
GMFPT_theory ==
  /\ run = NoRun
  /\ \E L_eigs \in eig(Laplacian(A)) :
       \E sortidx \in argsort([m \in 1..Rows(A) |-> L_eigs[m].val]) :
         LET l == sorted_l(L_eigs, sortidx)
             v == sorted_v(L_eigs, sortidx)
         IN  run' = [outcome |-> "returned", L_eigs |-> L_eigs,
                     sortidx |-> sortidx, l |-> l, v |-> v,
                     T |-> gmfpt_loops(A, weighted, l, v)]
  /\ UNCHANGED <<A, weighted>>
  /\ UNCHANGED augVars

NextSolve == GMFPT_theory

SpecSolve == InitSolve /\ [][NextSolve]_vars

(* ----------------------- claims on matrix_with_void -------------------- *)
\* p_void strictly between 0 and 1
InUnit(p) == Less(Int2R(0), p) /\ Less(p, Int2R(1))

RECURSIVE PartialRow(_, _, _)
PartialRow(m, i, k) ==
  IF k = 0 THEN Int2R(0) ELSE Add(PartialRow(m, i, k - 1), m[i][k])

\* degree of node i: the sum of row i
Degree(m, i) == PartialRow(m, i, Cols(m))

RECURSIVE PartialDegrees(_, _)
PartialDegrees(m, k) ==
  IF k = 0 THEN Int2R(0) ELSE Add(PartialDegrees(m, k - 1), Degree(m, k))

\* total edge weight E: half the sum of all entries
TotalWeight(m) == Div(PartialDegrees(m, Rows(m)), Int2R(2))

Returned(c) == c.outcome = "returned"

\* the coupling vector lambda of a returned matrix: its last row without the corner
Coupling(c) == [i \in 1..Rows(c.arg) |-> c.value[Rows(c.arg) + 1][i]]

\* C1: for a square base of size N and p_void in (0,1) the returned matrix is
\* (N+1)x(N+1), its top-left NxN block is the base entry for entry, entries
\* [i,N] and [N,i] both equal p_void*degree(i)/(1-p_void), entry [N,N] is 0,
\* and it is symmetric whenever the base is.
Thm_C1 ==
  (Returned(last) /\ IsSquare(last.arg) /\ InUnit(last.p)) =>
    LET N == Rows(last.arg)
        m == last.value
    IN  /\ Rows(m) = N + 1
        /\ \A i \in 1..(N + 1) : Len(m[i]) = N + 1
        /\ \A i, j \in 1..N : m[i][j] = last.arg[i][j]
        /\ \A i \in 1..N :
             /\ IsFinite(m[i][N + 1])
             /\ m[i][N + 1] = m[N + 1][i]
             /\ Mul(m[i][N + 1], Sub(Int2R(1), last.p))
                  = Mul(last.p, Degree(last.arg, i))
        /\ m[N + 1][N + 1] = Int2R(0)
        /\ (IsSymmetric(last.arg) => IsSymmetric(m))

Wit_C1 ==
  /\ Returned(last) /\ InUnit(last.p)
  /\ Rows(last.arg) = 2 /\ IsSymmetric(last.arg)
  /\ last.arg[1][2] # Int2R(0)
  /\ last.value[3][1] # Int2R(0)

\* C4 (as claimed): matrix_with_void fails with InvalidParameter and returns no
\* matrix whenever p_void is not strictly between 0 and 1 or the base is not
\* square or not symmetric.
Cx_C4 ==
  (last.outcome # "none"
     /\ (~InUnit(last.p) \/ ~IsSquare(last.arg) \/ ~IsSymmetric(last.arg)))
  => last.outcome = "InvalidParameter"

\* C6: for p_void in (0,1) the void node's row of the returned matrix sums to
\* p_void/(1-p_void) * 2E(base), E being half the sum of all base entries.
Thm_C6 ==
  (Returned(last) /\ InUnit(last.p)) =>
    SumSeq(last.value[Rows(last.arg) + 1])
      = Mul(Div(last.p, Sub(Int2R(1), last.p)),
            Mul(Int2R(2), TotalWeight(last.arg)))

Wit_C6 ==
  /\ Returned(last) /\ InUnit(last.p)
  /\ ~IsSymmetric(last.arg)
  /\ Less(Int2R(0), TotalWeight(last.arg))
  /\ Less(Int2R(0), SumSeq(last.value[Rows(last.arg) + 1]))

\* C7: matrix_with_void never modifies its argument and returns storage of its
\* own: whatever calls and in-place writes to returned matrices happen, the
\* base keeps every entry, and every later call returns what a call on the
\* base as the caller built it returns.
Thm_C7 ==
  /\ heap[mat0] = base0
  /\ (mat # 0 => mat # mat0)
  /\ (Returned(last) =>
        /\ last.arg = base0
        /\ last.value = matrix_with_void(base0, last.p))

\* a call made after an earlier returned matrix was written in place
Wit_C7 ==
  /\ calls = 2 /\ last.after > 0
  /\ Returned(last)
  /\ heap[mat0] = base0
  /\ Less(Int2R(0), TotalWeight(base0))

ValidBase(m) ==
  IsSymmetric(m) /\ \A i, j \in 1..Rows(m) : ~Less(m[i][j], Int2R(0))

\* the latest call returned for a valid base and a p_void in (0,1)
ValidCall == Returned(last) /\ ValidBase(last.arg) /\ InUnit(last.p)

\* the larger values of p_void in (0,1)
LargerP == { p2 \in PVals : InUnit(p2) /\ Less(last.p, p2) }

\* the coupling vector matrix_with_void computes for the same base and p2
CouplingFor(p2) ==
  [i \in 1..Rows(last.arg) |->
     matrix_with_void(last.arg, p2)[Rows(last.arg) + 1][i]]

\* C9 (as claimed): for a valid base and p1 < p2 in (0,1), every entry of the
\* coupling vector for p2 is strictly greater than the entry for p1.
Cx_C9 ==
  ValidCall => \A p2 \in LargerP : \A i \in 1..Rows(last.arg) :
    Less(Coupling(last)[i], CouplingFor(p2)[i])

\* C9 (amended): for a valid base and p1 < p2 in (0,1), the coupling entry of
\* every node of positive degree is strictly greater for p2 than for p1; the
\* entry of a node of degree 0 is 0 for both.
Thm_C9 ==
  ValidCall => \A p2 \in LargerP : \A i \in 1..Rows(last.arg) :
    IF Less(Int2R(0), Degree(last.arg, i))
    THEN Less(Coupling(last)[i], CouplingFor(p2)[i])
    ELSE Coupling(last)[i] = Int2R(0) /\ CouplingFor(p2)[i] = Int2R(0)

Wit_C9 ==
  /\ ValidCall
  /\ LargerP # {}
  /\ Rows(last.arg) = 2
  /\ Less(Int2R(0), Degree(last.arg, 1))
  /\ Less(Int2R(0), Degree(last.arg, 2))

(* ------------------------- claims on GMFPT_theory ---------------------- *)
Ran == run.outcome = "returned"

\* dv[i]: the projection of the degree vector onto the vector x
Proj(G, x) == SumSeq([k \in 1..Rows(G) |-> Mul(x[k], Degree(G, k))])

\* l, v is a spectrum of the Laplacian of G, each vector with its own eigenvalue
IsSpectrumOf(G, l, v) ==
  LET Lap == Laplacian(G)
  IN  \A i \in 1..Rows(G) :
        MatVec(Lap, v[i]) = [k \in 1..Rows(G) |-> Mul(l[i], v[i][k])]

Ascending(l) == \A i \in 1..(Len(l) - 1) : ~Less(l[i + 1], l[i])

TwoE(G) == Mul(Int2R(2), TotalWeight(G))

\* (1/l[i]) * (2E v[i,j]^2 - v[i,j] dv[i])
ClaimedUnweighted(G, l, v, i, j) ==
  Mul(Div(Int2R(1), l[i]),
      Sub(Mul(TwoE(G), Mul(v[i][j], v[i][j])),
          Mul(v[i][j], Proj(G, v[i]))))

\* (1/l[i]) * ((2E)^2 v[i,j]^2 - 4E v[i,j] dv[i] - dv[i]^2)
ClaimedWeighted(G, l, v, i, j) ==
  Mul(Div(Int2R(1), l[i]),
      Sub(Sub(Mul(Mul(TwoE(G), TwoE(G)), Mul(v[i][j], v[i][j])),
              Mul(Mul(Mul(Int2R(2), TwoE(G)), v[i][j]), Proj(G, v[i]))),
          Mul(Proj(G, v[i]), Proj(G, v[i]))))

\* the sum over the sorted modes 1..N-1 (0-based), i.e. without sorted index 0
ClaimedSum(wtd, G, l, v, j) ==
  SumSeq([i \in 1..(Rows(G) - 1) |->
            IF wtd THEN ClaimedWeighted(G, l, v, i + 1, j)
                   ELSE ClaimedUnweighted(G, l, v, i + 1, j)])

\* every eigenvalue past sorted index 0 is positive: the graph is connected
PositiveSpectrum == \A i \in 2..Rows(A) : Less(Int2R(0), run.l[i])

\* C2 (as claimed): the weighted variant returns, for every node j,
\* T[j] = (1/(2E)) * sum over sorted modes i = 1..N-1 of
\* (1/l[i]) * ((2E)^2 v[i,j]^2 - 4E v[i,j] dv[i] - dv[i]^2);
\* stated here for connected graphs, where every term is finite.
Cx_C2 ==
  (Ran /\ weighted /\ PositiveSpectrum) =>
    \A j \in 1..Rows(A) :
      run.T[j] = Div(ClaimedSum(TRUE, A, run.l, run.v, j), TwoE(A))

\* C3: the unweighted variant returns, for every node j,
\* T[j] = (N/(N-1)) * sum over sorted modes i = 1..N-1 of
\* (1/l[i]) * (2E v[i,j]^2 - v[i,j] dv[i]), the eigenpairs sorted ascending,
\* every vector paired with its own eigenvalue, the pair at sorted index 0
\* left out, and one entry per node in the input's order.
Thm_C3 ==
  (Ran /\ ~weighted) =>
    LET N == Rows(A)
    IN  /\ Ascending(run.l)
        /\ IsSpectrumOf(A, run.l, run.v)
        /\ Len(run.T) = N
        /\ \A j \in 1..N :
             run.T[j] = Mul(Div(Int2R(N), Int2R(N - 1)),
                            ClaimedSum(FALSE, A, run.l, run.v, j))

\* an unweighted run on the graph of unequal degrees whose eigensolver output
\* was not already in ascending order
Wit_C3 ==
  /\ Ran /\ ~weighted
  /\ A = Uneven
  /\ run.sortidx # [i \in 1..Rows(A) |-> i]
  /\ \A j \in 1..Rows(A) : IsFinite(run.T[j]) /\ Less(Int2R(0), run.T[j])
  /\ run.T[1] # run.T[2]

\* C5 (as claimed): with a zero eigenvalue at a sorted index >= 1 the solver
\* fails with DegenerateSpectrum or the affected mode contributes +infinity;
\* it never returns an ordinary finite or NaN result, in either variant.
Cx_C5 ==
  (run.outcome # "none" /\ \E i \in 2..Rows(A) : run.l[i] = Int2R(0)) =>
    \/ run.outcome = "DegenerateSpectrum"
    \/ \A j \in 1..Rows(A) : run.T[j] = PInf

\* the same graph with every weight times c, its spectrum being c*l with the
\* same vectors
ScaledRun(c) ==
  gmfpt_loops(ScaleInPlace(A, c), weighted,
              [i \in 1..Rows(A) |-> Mul(Int2R(c), run.l[i])], run.v)

ScaledSpectrum(c) ==
  IsSpectrumOf(ScaleInPlace(A, c),
               [i \in 1..Rows(A) |-> Mul(Int2R(c), run.l[i])], run.v)

\* C8 (as claimed): with every weight times c > 0 and the eigenvectors
\* unchanged, the unweighted output is multiplied by 1/c in every entry and
\* the weighted output is unchanged.
Cx_C8 ==
  Ran => \A c \in 1..MaxScale :
    ScaledSpectrum(c) =>
      IF weighted THEN ScaledRun(c) = run.T
      ELSE \A j \in 1..Rows(A) : ScaledRun(c)[j] = Div(run.T[j], Int2R(c))

\* C8 (amended): with every weight times c > 0 and the eigenvectors
\* unchanged, the output is unchanged in every entry, in the unweighted
\* variant as in the weighted one.
Thm_C8 ==
  Ran => \A c \in 1..MaxScale :
    ScaledSpectrum(c) => ScaledRun(c) = run.T

Wit_C8 ==
  /\ Ran /\ weighted
  /\ A = Uneven
  /\ ScaledSpectrum(MaxScale)
  /\ ScaledRun(MaxScale) = run.T
  /\ \A j \in 1..Rows(A) : IsFinite(run.T[j]) /\ run.T[j] # Int2R(0)

FlipRows(v, S) ==
  [i \in 1..Len(v) |-> IF i \in S THEN [k \in 1..Len(v[i]) |-> Neg(v[i][k])]
                                  ELSE v[i]]

\* C10 (as claimed): for the same graph and sorted eigenvalues, replacing any
\* eigenvector rows v[i] by -v[i] leaves every T[j] unchanged, in both variants;
\* stated here for connected graphs, where every term is finite.
Cx_C10 ==
  (Ran /\ PositiveSpectrum) => \A S \in SUBSET (1..Rows(A)) :
    IsSpectrumOf(A, run.l, FlipRows(run.v, S)) =>
      gmfpt_loops(A, weighted, run.l, FlipRows(run.v, S)) = run.T

====
